---- MODULE Spec2Model ----
(***************************************************************************)
(* Model of qsdsan/_process.py: Process (a stoichiometric reaction with a  *)
(* rate expression), Processes (a mutable, attribute-style registry of     *)
(* Process objects) and CompiledProcesses (the cached, read-only matrix    *)
(* form).                                                                  *)
(*                                                                         *)
(* Objects are modelled by identity: a Process object is a number of PObj, *)
(* a collection object is an index into the heap colls.  The __dict__ of a *)
(* collection is a sequence of [k, v] entries in insertion order (dct)     *)
(* followed by the nine derived entries that _compile stores (extra).      *)
(* Numbers are exact rationals <<n, d>>; d = 0 encodes the IEEE values     *)
(* inf (<<1,0>>), -inf (<<-1,0>>) and nan (<<0,0>>) a division by zero     *)
(* yields.  A rate expression is k * e for a base expression e.            *)
(***************************************************************************)
EXTENDS Integers, Sequences, FiniteSets, TLC

VARIABLES procs, colls, cache, returned, last, thr, load

vars == <<procs, colls, cache, returned, last, thr, load>>

\* ---------------------------------------------------------------- bounds
NProc == 3

MaxColl == 2

MaxTupleLen == 2

MaxCompiled == 1

NThreads == 2

\* ------------------------------------------------------------- universes
PObj == 1..NProc

NotAProcess == 0

ProcessIDs == <<"growth", "decay">>

CmpIDs == {"A", "B"}

ParamNames == {"k", "k2"}

Threads == 1..NThreads

\* ------------------------------------------------------ exact arithmetic
Abs(x) == IF x < 0 THEN -x ELSE x

Sgn(x) == IF x < 0 THEN -1 ELSE IF x = 0 THEN 0 ELSE 1

SgnP(x) == IF x < 0 THEN -1 ELSE 1

RECURSIVE GCD(_, _)
GCD(a, b) == IF b = 0 THEN a ELSE GCD(b, a % b)

RNorm(n, d) ==
    IF d = 0 THEN <<Sgn(n), 0>>
    ELSE LET g == GCD(Abs(n), Abs(d))
             s == SgnP(d)
         IN  <<(s * n) \div g, (s * d) \div g>>

R(n) == <<n, 1>>

RNaN == <<0, 0>>

RNeg(x) == <<-x[1], x[2]>>

RAbs(x) == <<Abs(x[1]), x[2]>>

RDiv(x, y) == RNorm(x[1] * y[2] * SgnP(y[1]), x[2] * Abs(y[1]))

RMul(x, y) == RNorm(x[1] * y[1], x[2] * y[2])

RAdd(x, y) ==
    IF x[2] = 0 /\ y[2] = 0 THEN (IF x[1] = y[1] THEN x ELSE RNaN)
    ELSE IF x[2] = 0 THEN x
    ELSE IF y[2] = 0 THEN y
    ELSE RNorm(x[1] * y[2] + y[1] * x[2], x[2] * y[2])

\* position of an element in a sequence without repeats (0 when absent)
IndexOf(s, e) == IF \E i \in DOMAIN s : s[i] = e
                 THEN CHOOSE i \in DOMAIN s : s[i] = e ELSE 0

\* ---------------------------------------------------------------- Process
ReverseNoRate(P) ==
    [P EXCEPT !.stoich = [i \in DOMAIN P.stoich |-> RNeg(P.stoich[i])]]

\* Process.reverse: negate every coefficient and the rate expression.
Reverse(P) ==
    [P EXCEPT !.stoich = [i \in DOMAIN P.stoich |-> RNeg(P.stoich[i])],
              !.rate = [k |-> RNeg(P.rate.k), e |-> P.rate.e]]

\* Process._normalize_stoichiometry: divide by |coefficient of new_ref|.
NormalizeStoichiometry(P, new_ref) ==
    LET factor == RAbs(P.stoich[IndexOf(P.components, new_ref)])
    IN  [P EXCEPT !.stoich = [i \in DOMAIN P.stoich |-> RDiv(P.stoich[i], factor)]]

\* Process._normalize_rate_eq: multiply the rate by the coefficient of
\* new_ref as it is when this runs, i.e. after the division.
NormalizeRateEq(P, new_ref) ==
    LET factor == P.stoich[IndexOf(P.components, new_ref)]
    IN  [P EXCEPT !.rate = [k |-> RMul(P.rate.k, factor), e |-> P.rate.e]]

\* Process.ref_component setter.  A falsy value is ignored; _ref_component
\* is assigned before the index lookup that raises KeyError.
SetRefComponent(P, ref_cmp) ==
    IF ref_cmp = "" THEN [P |-> P, res |-> "ok"]
    ELSE LET P1 == [P EXCEPT !.ref = ref_cmp]
         IN  IF IndexOf(P.components, ref_cmp) = 0
             THEN [P |-> P1, res |-> "KeyError"]
             ELSE [P |-> NormalizeRateEq(NormalizeStoichiometry(P1, ref_cmp), ref_cmp),
                   res |-> "ok"]

\* The same call on a list of plain Python numbers whose entry for ref_cmp
\* is 0: v/0 raises ZeroDivisionError in _normalize_stoichiometry, after
\* _ref_component was assigned and before anything else changed.
SetRefComponentZeroDivision(P, ref_cmp) ==
    [P |-> [P EXCEPT !.ref = ref_cmp], res |-> "ZeroDivisionError"]

\* What the setter can do.  On an ndarray a division by zero yields inf and
\* nan and no exception; on a list it depends on the entries, which
\* get_stoichiometric_coeff decides: SymPy numbers divide to zoo and nan
\* (encoded like inf and nan), Python numbers raise.
SetRefOutcomes(P, ref_cmp) ==
    {SetRefComponent(P, ref_cmp)} \cup
    IF /\ ref_cmp # ""
       /\ IndexOf(P.components, ref_cmp) # 0
       /\ ~P.isarray
       /\ P.stoich[IndexOf(P.components, ref_cmp)] = R(0)
    THEN {SetRefComponentZeroDivision(P, ref_cmp)}
    ELSE {}

\* Process.append_parameters
AppendParameters(P, new_pars) == [P EXCEPT !.params = P.params \cup new_pars]

\* Process.stoichiometry: the sparse view, components with v != 0.
StoichiometryView(P) ==
    [c \in {P.components[i] : i \in {j \in DOMAIN P.components : P.stoich[j] # R(0)}}
        |-> P.stoich[IndexOf(P.components, c)]]

\* the attributes Process.__init__ assigns to the instance
ProcessAttrs ==
    {"_ID", "_stoichiometry", "_components", "_ref_component", "_conserved_for",
     "_parameters", "_rate_equation"}

\* the i_<material> attribute of a component: A carries 2 units of COD, B
\* carries 1, neither carries N, P or charge
ConversionFactor(material, cmp) ==
    IF material = "COD" THEN (IF cmp = "A" THEN R(2) ELSE R(1)) ELSE R(0)

\* the array get_conversion_factors stacks: one row per material, one
\* column per component
ConversionMatrix(P, materials) ==
    [m \in DOMAIN materials |->
        [j \in DOMAIN P.components |-> ConversionFactor(materials[m], P.components[j])]]

\* Process.get_conversion_factors: it reads self._conservation_for, an
\* attribute no Process has, so the lookup raises AttributeError.
GetConversionFactors(P) ==
    IF "_conservation_for" \notin ProcessAttrs
    THEN [res |-> "AttributeError", ic |-> <<>>]
    ELSE [res |-> "ok", ic |-> ConversionMatrix(P, P.conserved_for)]

\* row @ v
RECURSIVE Dot(_, _, _)
Dot(row, v, n) ==
    IF n = 0 THEN R(0) ELSE RAdd(Dot(row, v, n - 1), RMul(row[n], v[n]))

\* np.isclose(x, 0, atol=tol): the values of the model are exact fractions
\* of small integers, so only 0 is within 1e-8 of 0; inf and nan are not
\* close to anything
IsCloseToZero(x) == x = R(0)

\* the (material, residual) pairs of the materials that are not conserved
Unconserved(P, ic) ==
    LET ic_dot_v == [m \in DOMAIN ic |-> Dot(ic[m], P.stoich, Len(P.stoich))]
        pairs    == [m \in DOMAIN ic |-> <<P.conserved_for[m], ic_dot_v[m]>>]
    IN  SelectSeq(pairs, LAMBDA pr : ~IsCloseToZero(pr[2]))

\* Process.check_conservation
CheckConservation(P) ==
    IF P.isarray
    THEN LET g == GetConversionFactors(P)
         IN  IF g.res # "ok" THEN [res |-> g.res, unconserved |-> <<>>]
             ELSE IF Unconserved(P, g.ic) # <<>>
                  THEN [res |-> "RuntimeError", unconserved |-> Unconserved(P, g.ic)]
                  ELSE [res |-> "ok", unconserved |-> <<>>]
    ELSE [res |-> "RuntimeError", unconserved |-> <<>>]

\* ------------------------------------------------- the __dict__ of a collection
DictHas(dct, key) == \E i \in DOMAIN dct : dct[i].k = key

DictGet(dct, key) == dct[CHOOSE i \in DOMAIN dct : dct[i].k = key].v

\* dct[key] = value: an existing key keeps its position, a new key goes last
DictSet(dct, key, value) ==
    IF DictHas(dct, key)
    THEN [i \in DOMAIN dct |-> IF dct[i].k = key THEN [k |-> key, v |-> value] ELSE dct[i]]
    ELSE Append(dct, [k |-> key, v |-> value])

\* dict.update(other)
RECURSIVE DictUpdate(_, _)
DictUpdate(dct, other) ==
    IF other = <<>> THEN dct
    ELSE DictUpdate(DictSet(dct, Head(other).k, Head(other).v), Tail(other))

DictValues(dct) == [i \in DOMAIN dct |-> dct[i].v]

\* the keys _compile stores in __dict__, and those it has stored when it
\* reaches the construction of the Components
DerivedKeys ==
    {"tuple", "size", "IDs", "_index", "_components", "_parameters",
     "_stoichiometry", "_rate_equations", "_production_rates"}

KeysBeforeComponents == {"tuple", "size", "IDs", "_index"}

\* the entries _compile adds to __dict__: stored is the set of keys
\* present, has = TRUE when all of them are
NoExtra ==
    [has |-> FALSE, stored |-> {}, tuple |-> <<>>, size |-> 0, IDs |-> <<>>,
     index |-> [id \in {} |-> 0], components |-> <<>>, parameters |-> {},
     numeric |-> TRUE, stoichiometry |-> <<>>, rate_equations |-> <<>>,
     production_rates |-> <<>>]

\* Processes.__new__ / CompiledProcesses.__new__: setfield(self, i.ID, i)
\* for every element of the iterable, in order.
RECURSIVE SetFields(_, _, _)
SetFields(dct, t, P) ==
    IF t = <<>> THEN dct
    ELSE SetFields(DictSet(dct, P[Head(t)].ID, Head(t)), Tail(t), P)

\* ------------------------------------------------------------ _compile
\* Components([cmp for i in processes for cmp in i._components]): the
\* components of the member processes, keyed by ID in order of first use.
RECURSIVE AllComponents(_, _)
AllComponents(ps, P) ==
    IF ps = <<>> THEN <<>>
    ELSE LET rest == AllComponents(Tail(ps), P)
             own  == P[Head(ps)].components
         IN  own \o SelectSeq(rest, LAMBDA c : IndexOf(own, c) = 0)

\* stch = [0]*cmps.size; stch[cmps._index[cmp]] = coeff for the sparse view
DenseRow(Pr, cmps) ==
    LET view == StoichiometryView(Pr)
    IN  [j \in DOMAIN cmps |-> IF cmps[j] \in DOMAIN view THEN view[cmps[j]] ELSE R(0)]

\* Matrix(M).T
MatT(M, ncols) == [c \in 1..ncols |-> [p \in DOMAIN M |-> M[p][c]]]

\* one entry of Matrix * column vector of rate expressions: the sum of
\* col[p] * rates[p], collected by base expression
RECURSIVE DotCoeff(_, _, _, _)
DotCoeff(col, rates, e, n) ==
    IF n = 0 THEN R(0)
    ELSE RAdd(DotCoeff(col, rates, e, n - 1),
              IF rates[n].e = e THEN RMul(col[n], rates[n].k) ELSE R(0))

MatVec(MT, rates) ==
    [c \in DOMAIN MT |->
        [e \in {rates[p].e : p \in DOMAIN rates} |-> DotCoeff(MT[c], rates, e, Len(rates))]]

ProductionRatesDropLast(M, rates, ncols) ==
    LET MT == MatT(M, ncols)
    IN  [c \in DOMAIN MT |->
            [e \in {rates[p].e : p \in DOMAIN rates} |->
                DotCoeff(MT[c], rates, e, Len(rates) - 1)]]

\* Matrix(M_stch).T * Matrix(rate_eqs)
ProductionRates(M, rates, ncols) == MatVec(MatT(M, ncols), rates)

\* CompiledProcesses._compile on a __dict__ that holds only processes
CompileExtra(dct, P) ==
    LET processes == DictValues(dct)
        IDs       == [i \in DOMAIN processes |-> P[processes[i]].ID]
        cmps      == AllComponents(processes, P)
        M_stch    == [i \in DOMAIN processes |-> DenseRow(P[processes[i]], cmps)]
        rate_eqs  == [i \in DOMAIN processes |-> P[processes[i]].rate]
    IN  [has |-> TRUE, stored |-> DerivedKeys,
         tuple |-> processes, size |-> Len(IDs), IDs |-> IDs,
         index |-> [id \in {IDs[i] : i \in DOMAIN IDs} |-> IndexOf(IDs, id) - 1],
         components |-> cmps,
         parameters |-> UNION {P[processes[i]].params : i \in DOMAIN processes},
         numeric |-> \A i \in DOMAIN processes : P[processes[i]].isarray,
         stoichiometry |-> M_stch, rate_equations |-> rate_eqs,
         production_rates |-> ProductionRates(M_stch, rate_eqs, Len(cmps))]

\* chemicals that are plain thermosteam Chemical objects: Components.__new__
\* accepts Component objects only and raises TypeError for these
NotComponents == {"Q"}

\* __dict__ when Components(...) raises: the first four entries are stored
PartialExtra(dct, P) ==
    LET full == CompileExtra(dct, P)
    IN  [NoExtra EXCEPT !.stored = KeysBeforeComponents, !.tuple = full.tuple,
                        !.size = full.size, !.IDs = full.IDs, !.index = full.index]

\* _compile reads tuple(dct.values()) and then i.ID of each value: a
\* __dict__ that already holds derived entries makes it raise
\* AttributeError before anything is stored.  Components(...) raises
\* TypeError when a member process is defined over a plain Chemical.
Compile(C, P) ==
    IF C.extra.stored # {} THEN [C |-> C, res |-> "AttributeError"]
    ELSE IF \E i \in DOMAIN C.dct :
               \E j \in DOMAIN P[C.dct[i].v].components :
                  P[C.dct[i].v].components[j] \in NotComponents
         THEN [C |-> [C EXCEPT !.extra = PartialExtra(C.dct, P)], res |-> "TypeError"]
         ELSE [C |-> [C EXCEPT !.extra = CompileExtra(C.dct, P)], res |-> "ok"]

\* ---------------------------------------------------- collection methods
ReadOnlyMethodsWithoutAppend == {"extend", "__setitem__"}

\* @read_only(methods=('append', 'extend', '__setitem__')): the named
\* methods of CompiledProcesses, and attribute assignment, are denied.
ReadOnlyMethods == {"append", "extend", "__setitem__"}

Denied(C, method) == C.cls = "CompiledProcesses" /\ method \in ReadOnlyMethods

ProcessesAppendOverwrite(C, x, P) ==
    IF x = NotAProcess THEN [C |-> C, res |-> "TypeError"]
    ELSE [C |-> [C EXCEPT !.dct = DictSet(C.dct, P[x].ID, x)], res |-> "ok"]

\* Processes.append
ProcessesAppend(C, x, P) ==
    IF x = NotAProcess THEN [C |-> C, res |-> "TypeError"]
    ELSE IF DictHas(C.dct, P[x].ID) THEN [C |-> C, res |-> "ValueError"]
    ELSE [C |-> [C EXCEPT !.dct = Append(C.dct, [k |-> P[x].ID, v |-> x])], res |-> "ok"]

\* for process in processes: self.append(process) -- stops at the first
\* exception, keeping what earlier iterations stored
RECURSIVE AppendEach(_, _, _)
AppendEach(C, t, P) ==
    IF t = <<>> THEN [C |-> C, res |-> "ok"]
    ELSE LET r == ProcessesAppend(C, Head(t), P)
         IN  IF r.res # "ok" THEN r ELSE AppendEach(r.C, Tail(t), P)

\* Processes.extend: a Processes argument is merged with dict.update, any
\* other iterable is appended element by element.
ProcessesExtend(C, isColl, D, t, P) ==
    IF isColl
    THEN [C |-> [C EXCEPT !.dct = DictUpdate(C.dct, D.dct),
                          !.extra = IF D.extra.stored # {} THEN D.extra ELSE C.extra],
          res |-> "ok"]
    ELSE AppendEach(C, t, P)

\* Processes.mycompile: the class is switched first, then _compile runs
MyCompile(C, P) ==
    LET r == Compile([C EXCEPT !.cls = "CompiledProcesses"], P)
    IN  r

CacheHitNever(ch, t) == FALSE

\* CompiledProcesses.__new__: the cache lookup by the tuple of processes
CacheHit(ch, t) == t \in DOMAIN ch

\* the iterables handed to the constructors and to extend: sequences of up
\* to MaxTupleLen different Process objects
Tuples ==
    UNION {{t \in [1..n -> PObj] : \A i, j \in 1..n : t[i] = t[j] => i = j} :
              n \in 0..MaxTupleLen}

NonEmptyTuples == Tuples \ {<<>>}

\* the methods class Processes defines
ProcessesMethods ==
    {"__new__", "__setattr__", "__setitem__", "__getitem__", "copy", "append",
     "extend", "subgroup", "mycompile", "show", "__len__", "__contains__",
     "__iter__", "__repr__", "load_from_file"}

\* the keys handed to the lookups: the process IDs, a name nothing is
\* bound to, and the name of a derived entry
LookupKeys == {ProcessIDs[i] : i \in DOMAIN ProcessIDs} \cup {"nosuch", "size"}

KeyLists == UNION {[1..n -> LookupKeys] : n \in 1..MaxTupleLen}

\* key in self.__dict__: the member processes and the derived entries
InDict(C, key) == DictHas(C.dct, key) \/ key \in C.extra.stored

\* Processes.__getitem__ with a str key: dct[key], KeyError re-raised as
\* KeyError
GetItem(C, key) == IF InDict(C, key) THEN "ok" ELSE "KeyError"

\* Processes.__getitem__ with an iterable of keys
GetItemList(C, keys) ==
    IF \A i \in DOMAIN keys : InDict(C, keys[i]) THEN "ok" ELSE "KeyError"

\* CompiledProcesses.index; Processes defines no index
Index(C, ID) ==
    IF C.cls # "CompiledProcesses" THEN "AttributeError"
    ELSE IF ID \in DOMAIN C.extra.index THEN "ok" ELSE "UndefinedProcess"

\* CompiledProcesses.indices; Processes defines no indices
Indices(C, IDs) ==
    IF C.cls # "CompiledProcesses" THEN "AttributeError"
    ELSE IF \A i \in DOMAIN IDs : IDs[i] \in DOMAIN C.extra.index
         THEN "ok" ELSE "UndefinedProcess"

\* Processes.subgroup: getattr raises AttributeError for a name that is not
\* bound; otherwise Process(list) raises TypeError, __init__ lacking its
\* required arguments reaction and ref_component.
ProcessesSubgroup(C, IDs) ==
    IF \E i \in DOMAIN IDs : ~InDict(C, IDs[i]) THEN "AttributeError" ELSE "TypeError"

\* CompiledProcesses.subgroup: self[IDs] raises KeyError for an unknown
\* name; Processes(processes) raises AttributeError at i.ID when a name was
\* that of a derived entry; otherwise new.compile() raises AttributeError,
\* Processes defining mycompile and no compile.
CompiledSubgroup(C, IDs) ==
    IF GetItemList(C, IDs) # "ok" THEN GetItemList(C, IDs)
    ELSE IF \E i \in DOMAIN IDs : ~DictHas(C.dct, IDs[i]) THEN "AttributeError"
    ELSE IF "compile" \notin ProcessesMethods THEN "AttributeError"
    ELSE "ok"

\* c.subgroup(IDs), by the class of c
Subgroup(C, IDs) ==
    IF C.cls = "CompiledProcesses" THEN CompiledSubgroup(C, IDs)
    ELSE ProcessesSubgroup(C, IDs)

\* the order in which _compile stores its entries in __dict__
DerivedOrder ==
    <<"tuple", "size", "IDs", "_index", "_components", "_parameters",
      "_stoichiometry", "_rate_equations", "_production_rates">>

\* a value of __dict__ that is a Process object
ProcessValue(p) == [kind |-> "Process", obj |-> p, key |-> ""]

\* a value of __dict__ that _compile stored under key k
DerivedValue(k) == [kind |-> "derived", obj |-> 0, key |-> k]

\* Processes.__len__: len(self.__dict__)
ProcessesLen(C) == Len(C.dct) + Cardinality(C.extra.stored)

\* Processes.__iter__: yield from self.__dict__.values(), in insertion order
ProcessesIter(C) ==
    LET ks == SelectSeq(DerivedOrder, LAMBDA k : k \in C.extra.stored)
    IN  [i \in DOMAIN C.dct |-> ProcessValue(C.dct[i].v)]
            \o [i \in DOMAIN ks |-> DerivedValue(ks[i])]

\* __contains__ with a str, the same in both classes: process in self.__dict__
ContainsStr(C, key) == InDict(C, key)

\* Processes.copy: a new Processes with setattr(copy, proc.ID, proc) for
\* every proc the collection iterates over
ProcessesCopy(C, P) ==
    [res |-> "ok",
     C |-> [cls |-> "Processes", dct |-> SetFields(<<>>, DictValues(C.dct), P),
            extra |-> NoExtra]]

\* CompiledProcesses.copy: Processes(self) reads i.ID of every value the
\* collection iterates over and raises AttributeError at the first derived
\* entry; otherwise the copy is promoted by mycompile
CompiledCopy(C, P) ==
    LET it == ProcessesIter(C)
    IN  IF \E i \in DOMAIN it : it[i].kind # "Process"
        THEN [res |-> "AttributeError", C |-> C]
        ELSE MyCompile(ProcessesCopy(C, P).C, P)

\* c.copy(), by the class of c
Copy(C, P) ==
    IF C.cls = "CompiledProcesses" THEN CompiledCopy(C, P) ELSE ProcessesCopy(C, P)

\* ------------------------------------------------------- load_from_file
\* the cells of a table: a blank cell, a number, a text
Blank == [kind |-> "blank", n |-> 0, s |-> ""]

Num(n) == [kind |-> "num", n |-> n, s |-> ""]

Sym(s) == [kind |-> "sym", n |-> 0, s |-> s]

\* the text of the first and of the last column in row i of the file
RowID(i) == [kind |-> "sym", n |-> i, s |-> "ID"]

RowRate(i) == [kind |-> "sym", n |-> i, s |-> "rate"]

\* the missing value of a DataFrame
NaN == [kind |-> "nan", n |-> 0, s |-> ""]

\* data.columns[1:-1]: the component columns of the table
LoadColumns == <<"A", "B">>

\* what a component cell of the file can hold: nothing, a number, or a
\* symbolic coefficient
FileCells == {Blank, Num(-1), Num(0), Num(1), Num(2), Sym("y")}

\* the most rows a file has
MaxRows == 2

\* the files handed to load_from_file: up to MaxRows rows, each with an ID,
\* one cell per component column and the text of a rate equation
Tables ==
    UNION {[1..n -> [DOMAIN LoadColumns -> FileCells]] : n \in 0..MaxRows}

\* the file names handed to load_from_file, by their ending
Paths == {".csv", ".xlsx", ".txt"}

\* pd.read_csv / pd.read_excel with na_values=0: a blank cell and a cell
\* holding 0 both read as NaN
ReadCell(c) ==
    IF c.kind = "blank" \/ (c.kind = "num" /\ c.n = 0) THEN NaN ELSE c

\* the DataFrame read from the file: row i holds its ID, the component
\* cells and the rate equation, and keeps its index i
ReadTable(data) ==
    [i \in DOMAIN data |->
        [i |-> i,
         proc |-> <<RowID(i)>> \o [j \in DOMAIN data[i] |-> ReadCell(data[i][j])]
                      \o <<RowRate(i)>>]]

\* proc[1:-1]
Middle(proc) == SubSeq(proc, 2, Len(proc) - 1)

\* data.dropna(how='all', subset=cmp_IDs)
DropNa(rows) ==
    SelectSeq(rows, LAMBDA r : \E j \in DOMAIN Middle(r.proc) : Middle(r.proc)[j] # NaN)

\* stoichio.isin((-1, 1))
IsIn(c) == c.kind = "num" /\ c.n \in {-1, 1}

\* the first column, in column order, whose cell is in the set of positions
FirstOf(positions) ==
    LoadColumns[CHOOSE j \in positions : \A i \in positions : j <= i]

RefChoiceFirstPresent(stoichio) ==
    FirstOf({j \in DOMAIN stoichio : stoichio[j] # NaN})

\* ref = cmp_IDs[stoichio.isin((-1, 1))]; if it is empty,
\* cmp_IDs[-pd.isna(stoichio)][0], else ref[0]
RefChoice(stoichio) ==
    LET ref == {j \in DOMAIN stoichio : IsIn(stoichio[j])}
    IN  IF ref = {} THEN FirstOf({j \in DOMAIN stoichio : stoichio[j] # NaN})
        ELSE FirstOf(ref)

\* stoichio[-pd.isna(stoichio)].to_dict()
Reaction(stoichio) ==
    LET present == SelectSeq([j \in DOMAIN stoichio |-> j],
                             LAMBDA j : stoichio[j] # NaN)
    IN  [k \in DOMAIN present |->
            [k |-> LoadColumns[present[k]], v |-> stoichio[present[k]]]]

\* Process.__init__ as called by load_from_file: iterating parameters
\* raises TypeError when it is None
ProcessInit(parameters) == IF parameters THEN "ok" ELSE "TypeError"

\* new.append(process): a name that is no str cannot be set as an attribute
LoadAppend(dct, ID, process) ==
    IF DictHas(dct, ID) THEN [dct |-> dct, res |-> "ValueError"]
    ELSE IF ID.kind # "sym" THEN [dct |-> dct, res |-> "TypeError"]
    ELSE [dct |-> Append(dct, [k |-> ID, v |-> process]), res |-> "ok"]

\* for i, proc in data.iterrows(): one Process(...) call and one append
\* per row, until one of them raises
RECURSIVE LoadRows(_, _, _)
LoadRows(rows, parameters, acc) ==
    IF rows = <<>> \/ acc.res # "ok" THEN acc
    ELSE LET proc     == Head(rows).proc
             ID       == proc[1 + 1]
             stoichio == Middle(proc)
             rate_eq  == proc[Len(proc)]
             ref      == RefChoice(stoichio)
             call     == [row |-> Head(rows).i, ID |-> ID,
                          reaction |-> Reaction(stoichio), ref_component |-> ref,
                          rate_equation |-> rate_eq]
             calls    == Append(acc.calls, call)
             made     == ProcessInit(parameters)
             added    == LoadAppend(acc.dct, ID, Len(calls))
         IN  IF made # "ok"
             THEN [acc EXCEPT !.calls = calls, !.res = made]
             ELSE LoadRows(Tail(rows), parameters,
                           [calls |-> calls, dct |-> added.dct, res |-> added.res])

\* Processes.load_from_file(path, parameters=..., compile=...): the
\* Process(...) calls made, the names bound in the new collection, and the
\* class of the collection returned ("none" when the call raises)
LoadFromFile(path, data, parameters, compile) ==
    IF path \notin {".csv", ".xls", ".xlsx"}
    THEN [res |-> "ValueError", calls |-> <<>>, dct |-> <<>>, cls |-> "none"]
    ELSE LET r == LoadRows(DropNa(ReadTable(data)), parameters,
                           [calls |-> <<>>, dct |-> <<>>, res |-> "ok"])
         IN  [res |-> r.res, calls |-> r.calls, dct |-> r.dct,
              cls |-> IF r.res # "ok" THEN "none"
                      ELSE IF compile THEN "CompiledProcesses" ELSE "Processes"]

\* the outcome of the latest call: the operation, "ok" or the exception it
\* raised, whether _compile ran, and the object returned (0 for none)
MkLast(op, res, ran, ret) == [op |-> op, res |-> res, ran |-> ran, ret |-> ret]

\* ------------------------------------------------------------------ Init
ProcID(p) == ProcessIDs[((p - 1) % Len(ProcessIDs)) + 1]

\* the processes of the two-reaction scenario: growth: A -> 2 B at k*A,
\* decay: B -> A at k2*B, numeric coefficients over components (A, B)
ScenarioProc(p) ==
    IF ProcID(p) = "growth"
    THEN [ID |-> "growth", components |-> <<"A", "B">>, stoich |-> <<R(-1), R(2)>>,
          isarray |-> TRUE, ref |-> "A", rate |-> [k |-> R(1), e |-> "k*A"],
          params |-> {"k"}, conserved_for |-> <<"COD", "N", "P", "charge">>]
    ELSE [ID |-> "decay", components |-> <<"A", "B">>, stoich |-> <<R(1), R(-1)>>,
          isarray |-> TRUE, ref |-> "B", rate |-> [k |-> R(1), e |-> "k2*B"],
          params |-> {"k2"}, conserved_for |-> <<"COD", "N", "P", "charge">>]

\* a process over its own component ordering, with a component that does
\* not take part, symbolic coefficients and the rate law k*A
OtherProc(p) ==
    [ID |-> ProcID(p), components |-> <<"B", "A">>, stoich |-> <<R(3), R(0)>>,
     isarray |-> FALSE, ref |-> "B", rate |-> [k |-> R(2), e |-> "k*A"],
     params |-> {"k", "k2"}, conserved_for |-> <<"COD", "N", "P", "charge">>]

\* load_from_file has not been called
NoLoad ==
    [path |-> "", data |-> <<>>, parameters |-> FALSE, compile |-> FALSE,
     called |-> FALSE, res |-> "none", calls |-> <<>>, dct |-> <<>>, cls |-> "none"]

\* a thread that has not called CompiledProcesses yet
IdleThread == [pc |-> "idle", t |-> <<>>, self |-> 0]

InitColl ==
    /\ colls = <<>>
    /\ cache = [t \in {} |-> 0]
    /\ returned = {}
    /\ last = MkLast("init", "ok", FALSE, 0)
    /\ thr = [i \in Threads |-> IdleThread]
    /\ load = NoLoad

\* the pool of Process objects: the scenario's processes and one more
\* object per further ID, or the other way round, or scenario processes only
Init ==
    /\ \/ procs = [p \in PObj |-> IF p <= Len(ProcessIDs) THEN ScenarioProc(p) ELSE OtherProc(p)]
       \/ procs = [p \in PObj |-> IF p <= Len(ProcessIDs) THEN OtherProc(p) ELSE ScenarioProc(p)]
       \/ procs = [p \in PObj |-> ScenarioProc(p)]
    /\ InitColl

\* --------------------------------------------------------------- actions
\* Processes(t)
NewProcesses(t) ==
    /\ Len(colls) < MaxColl
    /\ colls' = Append(colls, [cls |-> "Processes", dct |-> SetFields(<<>>, t, procs),
                               extra |-> NoExtra])
    /\ last' = MkLast("new", "ok", FALSE, Len(colls) + 1)
    /\ UNCHANGED <<procs, cache, returned, thr, load>>

\* c.append(x)
DoAppend(c, x) ==
    LET r == IF Denied(colls[c], "append")
             THEN [C |-> colls[c], res |-> "TypeError"]
             ELSE ProcessesAppend(colls[c], x, procs)
    IN  /\ colls' = [colls EXCEPT ![c] = r.C]
        /\ last' = MkLast("append", r.res, FALSE, 0)
        /\ UNCHANGED <<procs, cache, returned, thr, load>>

\* c.extend(t) for a plain iterable t of processes
DoExtendIterable(c, t) ==
    LET r == IF Denied(colls[c], "extend")
             THEN [C |-> colls[c], res |-> "TypeError"]
             ELSE ProcessesExtend(colls[c], FALSE, colls[c], t, procs)
    IN  /\ colls' = [colls EXCEPT ![c] = r.C]
        /\ last' = MkLast("extend", r.res, FALSE, 0)
        /\ UNCHANGED <<procs, cache, returned, thr, load>>

\* c.extend(d) for another process collection d that has not been compiled
DoExtendProcesses(c, d) ==
    /\ d # c
    /\ colls[d].extra.stored = {}
    /\ LET r == IF Denied(colls[c], "extend")
                THEN [C |-> colls[c], res |-> "TypeError"]
                ELSE ProcessesExtend(colls[c], TRUE, colls[d], <<>>, procs)
       IN  /\ colls' = [colls EXCEPT ![c] = r.C]
           /\ last' = MkLast("extend", r.res, FALSE, 0)
    /\ UNCHANGED <<procs, cache, returned, thr, load>>

\* c.<ID> = x, for any ID and x: Processes.__setattr__ raises; on a compiled
\* collection the decorator's __setattr__ raises
DoSetAttr(c) ==
    /\ last' = MkLast("setattr", "TypeError", FALSE, 0)
    /\ UNCHANGED <<procs, colls, cache, returned, thr, load>>

\* c[ID] = x, for any ID and x: Processes.__setitem__ raises; denied on a
\* compiled collection
DoSetItem(c) ==
    /\ last' = MkLast("setitem", "TypeError", FALSE, 0)
    /\ UNCHANGED <<procs, colls, cache, returned, thr, load>>

\* c.mycompile().  Collections without a process are left out: what
\* Components(()).compile() does is decided outside this module.
DoMyCompile(c) ==
    /\ colls[c].dct # <<>>
    /\ LET r == MyCompile(colls[c], procs)
       IN  /\ colls' = [colls EXCEPT ![c] = r.C]
           /\ last' = MkLast("mycompile", r.res, TRUE, 0)
    /\ UNCHANGED <<procs, cache, returned, thr, load>>

\* CompiledProcesses(t).  When _compile raises, the new object is dropped
\* and the cache is not written.
Construct(t) ==
    IF CacheHit(cache, t)
    THEN /\ returned' = returned \cup {<<t, cache[t]>>}
         /\ last' = MkLast("construct", "ok", FALSE, cache[t])
         /\ UNCHANGED <<procs, colls, cache, thr, load>>
    ELSE /\ Len(colls) < MaxColl
         /\ LET new == Len(colls) + 1
                r   == Compile([cls |-> "CompiledProcesses",
                                dct |-> SetFields(<<>>, t, procs),
                                extra |-> NoExtra], procs)
            IN  IF r.res = "ok"
                THEN /\ colls' = Append(colls, r.C)
                     /\ cache' = [u \in DOMAIN cache \cup {t} |->
                                     IF u = t THEN new ELSE cache[u]]
                     /\ returned' = returned \cup {<<t, new>>}
                     /\ last' = MkLast("construct", r.res, TRUE, new)
                ELSE /\ last' = MkLast("construct", r.res, TRUE, 0)
                     /\ UNCHANGED <<colls, cache, returned>>
         /\ UNCHANGED <<procs, thr, load>>

\* c.subgroup(IDs): every path raises, and the Processes object the
\* compiled variant builds on the way is dropped
DoSubgroup(c, IDs) ==
    /\ last' = MkLast("subgroup", Subgroup(colls[c], IDs), FALSE, 0)
    /\ UNCHANGED <<procs, colls, cache, returned, thr, load>>

\* c[key]
DoGetItem(c, key) ==
    /\ last' = MkLast("getitem", GetItem(colls[c], key), FALSE, 0)
    /\ UNCHANGED <<procs, colls, cache, returned, thr, load>>

\* c[keys]
DoGetItemList(c, keys) ==
    /\ last' = MkLast("getitem_list", GetItemList(colls[c], keys), FALSE, 0)
    /\ UNCHANGED <<procs, colls, cache, returned, thr, load>>

\* c.index(ID)
DoIndex(c, ID) ==
    /\ last' = MkLast("index", Index(colls[c], ID), FALSE, 0)
    /\ UNCHANGED <<procs, colls, cache, returned, thr, load>>

\* c.indices(IDs)
DoIndices(c, IDs) ==
    /\ last' = MkLast("indices", Indices(colls[c], IDs), FALSE, 0)
    /\ UNCHANGED <<procs, colls, cache, returned, thr, load>>

\* len(c)
DoLen(c) ==
    /\ last' = MkLast("len", "ok", FALSE, ProcessesLen(colls[c]))
    /\ UNCHANGED <<procs, colls, cache, returned, thr, load>>

\* list(c)
DoIter(c) ==
    /\ last' = MkLast("iter", "ok", FALSE, ProcessesIter(colls[c]))
    /\ UNCHANGED <<procs, colls, cache, returned, thr, load>>

\* key in c, for a str key
DoContains(c, key) ==
    /\ last' = MkLast("contains", "ok", FALSE, ContainsStr(colls[c], key))
    /\ UNCHANGED <<procs, colls, cache, returned, thr, load>>

\* c.copy(): the copy is a new object; nothing is kept when copy raises
DoCopy(c) ==
    LET r == Copy(colls[c], procs)
    IN  /\ IF r.res = "ok"
           THEN /\ Len(colls) < MaxColl
                /\ colls' = Append(colls, r.C)
                /\ last' = MkLast("copy", "ok", r.C.cls = "CompiledProcesses",
                                  Len(colls) + 1)
           ELSE /\ last' = MkLast("copy", r.res, FALSE, 0)
                /\ UNCHANGED colls
        /\ UNCHANGED <<procs, cache, returned, thr, load>>

\* Processes.load_from_file(path, parameters=..., compile=...) on the file
\* and arguments of this behaviour
DoLoadFromFile ==
    /\ ~load.called
    /\ LET r == LoadFromFile(load.path, load.data, load.parameters, load.compile)
       IN  /\ load' = [load EXCEPT !.called = TRUE, !.res = r.res, !.calls = r.calls,
                                   !.dct = r.dct, !.cls = r.cls]
           /\ last' = MkLast("load_from_file", r.res, r.cls = "CompiledProcesses", 0)
    /\ UNCHANGED <<procs, colls, cache, returned, thr>>

\* ------------------------------------- CompiledProcesses.__new__, by steps
\* thread i calls CompiledProcesses(t): processes = tuple(processes)
TCall(i, t) ==
    /\ thr[i].pc = "idle"
    /\ thr' = [thr EXCEPT ![i] = [pc |-> "called", t |-> t, self |-> 0]]
    /\ UNCHANGED <<procs, colls, cache, returned, last, load>>

\* if processes in cache
TLookup(i) ==
    /\ thr[i].pc = "called"
    /\ thr' = [thr EXCEPT ![i].pc = IF CacheHit(cache, thr[i].t) THEN "hit" ELSE "miss"]
    /\ UNCHANGED <<procs, colls, cache, returned, last, load>>

\* self = cache[processes]; return self
THit(i) ==
    /\ thr[i].pc = "hit"
    /\ thr' = [thr EXCEPT ![i].pc = "done", ![i].self = cache[thr[i].t]]
    /\ returned' = returned \cup {<<thr[i].t, cache[thr[i].t]>>}
    /\ last' = MkLast("construct", "ok", FALSE, cache[thr[i].t])
    /\ UNCHANGED <<procs, colls, cache, load>>

\* self = object.__new__(cls); setfield ...; self._compile()
TCompile(i) ==
    /\ thr[i].pc = "miss"
    /\ Len(colls) < MaxColl
    /\ LET r == Compile([cls |-> "CompiledProcesses",
                         dct |-> SetFields(<<>>, thr[i].t, procs),
                         extra |-> NoExtra], procs)
       IN  IF r.res = "ok"
           THEN /\ colls' = Append(colls, r.C)
                /\ thr' = [thr EXCEPT ![i].pc = "compiled", ![i].self = Len(colls) + 1]
                /\ UNCHANGED last
           ELSE /\ thr' = [thr EXCEPT ![i].pc = "done"]
                /\ last' = MkLast("construct", r.res, TRUE, 0)
                /\ UNCHANGED colls
    /\ UNCHANGED <<procs, cache, returned, load>>

\* cache[processes] = self; return self
TStore(i) ==
    /\ thr[i].pc = "compiled"
    /\ cache' = [u \in DOMAIN cache \cup {thr[i].t} |->
                    IF u = thr[i].t THEN thr[i].self ELSE cache[u]]
    /\ thr' = [thr EXCEPT ![i].pc = "done"]
    /\ returned' = returned \cup {<<thr[i].t, thr[i].self>>}
    /\ last' = MkLast("construct", "ok", TRUE, thr[i].self)
    /\ UNCHANGED <<procs, colls, load>>

\* ------------------------------------------------- actions on a Process
\* the Process object the process-level operations are applied to
Subject == CHOOSE p \in PObj : \A q \in PObj : p <= q

MaxCoeff == 2

Coeffs == {R(n) : n \in (0 - MaxCoeff)..MaxCoeff}

\* p.reverse()
DoReverse(p) ==
    /\ procs' = [procs EXCEPT ![p] = Reverse(procs[p])]
    /\ last' = MkLast("reverse", "ok", FALSE, 0)
    /\ UNCHANGED <<colls, cache, returned, thr, load>>

\* p.ref_component = ref_cmp
DoSetRefComponent(p, ref_cmp) ==
    \E r \in SetRefOutcomes(procs[p], ref_cmp) :
        /\ procs' = [procs EXCEPT ![p] = r.P]
        /\ last' = MkLast("set_ref", r.res, FALSE, 0)
        /\ UNCHANGED <<colls, cache, returned, thr, load>>

\* p.append_parameters(name)
DoAppendParameters(p, name) ==
    /\ procs' = [procs EXCEPT ![p] = AppendParameters(procs[p], {name})]
    /\ last' = MkLast("append_parameters", "ok", FALSE, 0)
    /\ UNCHANGED <<colls, cache, returned, thr, load>>

\* p.check_conservation()
DoCheckConservation(p) ==
    /\ last' = MkLast("check_conservation", CheckConservation(procs[p]).res, FALSE, 0)
    /\ UNCHANGED <<procs, colls, cache, returned, thr, load>>

\* ------------------------------------------------------- specifications
NextMutable ==
    \/ \E t \in Tuples : NewProcesses(t)
    \/ \E c \in DOMAIN colls, x \in PObj \cup {NotAProcess} : DoAppend(c, x)
    \/ \E c \in DOMAIN colls, t \in Tuples : DoExtendIterable(c, t)
    \/ \E c \in DOMAIN colls, d \in DOMAIN colls : DoExtendProcesses(c, d)
    \/ \E c \in DOMAIN colls : DoSetAttr(c)
    \/ \E c \in DOMAIN colls : DoSetItem(c)

CompileStep ==
    \/ \E t \in Tuples : NewProcesses(t)
    \/ \E c \in DOMAIN colls : DoMyCompile(c)
    \/ \E t \in NonEmptyTuples : Construct(t)

\* construction and compilation with at most MaxCompiled collections alive
NextCompile ==
    \/ Len(colls) < MaxCompiled /\ \E t \in Tuples : NewProcesses(t)
    \/ \E c \in DOMAIN colls : DoMyCompile(c)
    \/ \E t \in NonEmptyTuples :
          (t \in DOMAIN cache \/ Len(colls) < MaxCompiled) /\ Construct(t)

Next ==
    \/ NextMutable
    \/ CompileStep

NextProcess ==
    \/ DoReverse(Subject)
    \/ \E c \in CmpIDs \cup {"", "Z"} : DoSetRefComponent(Subject, c)
    \/ \E n \in ParamNames : DoAppendParameters(Subject, n)
    \/ DoCheckConservation(Subject)

\* lookups and subgroups on mutable and compiled collections
NextQuery ==
    \/ NextCompile
    \/ \E c \in DOMAIN colls, IDs \in KeyLists : DoSubgroup(c, IDs)
    \/ \E c \in DOMAIN colls, key \in LookupKeys : DoGetItem(c, key)
    \/ \E c \in DOMAIN colls, keys \in KeyLists : DoGetItemList(c, keys)
    \/ \E c \in DOMAIN colls, ID \in LookupKeys : DoIndex(c, ID)
    \/ \E c \in DOMAIN colls, IDs \in KeyLists : DoIndices(c, IDs)

\* length, iteration, membership and copy of mutable and compiled collections
NextView ==
    \/ NextCompile
    \/ \E c \in DOMAIN colls : DoLen(c)
    \/ \E c \in DOMAIN colls : DoIter(c)
    \/ \E c \in DOMAIN colls, key \in LookupKeys : DoContains(c, key)
    \/ \E c \in DOMAIN colls : DoCopy(c)

\* compilation together with the operations on one of the processes
NextFrozen ==
    \/ NextCompile
    \/ NextProcess

\* threads constructing compiled collections, one statement at a time
NextThreads ==
    \/ \E i \in Threads, t \in NonEmptyTuples : TCall(i, t)
    \/ \E i \in Threads : TLookup(i)
    \/ \E i \in Threads : THit(i)
    \/ \E i \in Threads : TCompile(i)
    \/ \E i \in Threads : TStore(i)

\* the registry operations on collections that are never compiled
SpecMutable == Init /\ [][NextMutable]_vars

\* construction and compilation, one collection at a time
SpecCompile == Init /\ [][NextCompile]_vars

\* the life cycle of collections
Spec == Init /\ [][Next]_vars

\* one Process with coefficients up to MaxCoeff over components (A, B)
InitProcess ==
    /\ \E st \in [1..2 -> Coeffs], ref \in CmpIDs, arr \in BOOLEAN, k \in {R(1), R(-1)} :
          procs = [p \in PObj |->
                     IF p = Subject
                     THEN [ScenarioProc(p) EXCEPT !.stoich = st, !.ref = ref,
                                                  !.isarray = arr, !.rate.k = k]
                     ELSE ScenarioProc(p)]
    /\ InitColl

SpecProcess == InitProcess /\ [][NextProcess]_vars

SpecQuery == Init /\ [][NextQuery]_vars

SpecView == Init /\ [][NextView]_vars

SpecFrozen == Init /\ [][NextFrozen]_vars

SpecThreads == Init /\ [][NextThreads]_vars

\* a file and the arguments of one load_from_file call; parameters is
\* FALSE for the default None, TRUE for an iterable of names
InitLoad ==
    /\ procs = [p \in PObj |-> ScenarioProc(p)]
    /\ colls = <<>>
    /\ cache = [t \in {} |-> 0]
    /\ returned = {}
    /\ last = MkLast("init", "ok", FALSE, 0)
    /\ thr = [i \in Threads |-> IdleThread]
    /\ \E path \in Paths, data \in Tables, parameters \in BOOLEAN, compile \in BOOLEAN :
          load = [NoLoad EXCEPT !.path = path, !.data = data,
                                !.parameters = parameters, !.compile = compile]

NextLoad == DoLoadFromFile

\* loading a collection from a table
SpecLoad == InitLoad /\ [][NextLoad]_vars

\* a process defined over thermosteam chemicals one of which is a plain
\* Chemical
ChemicalProc(p) == [ScenarioProc(p) EXCEPT !.components = <<"A", "Q">>]

\* a pool in which one process is defined over a plain Chemical
InitAbort ==
    /\ \E b \in PObj :
          procs = [p \in PObj |-> IF p = b THEN ChemicalProc(p) ELSE ScenarioProc(p)]
    /\ InitColl

\* construction and compilation of collections, some of which fail
SpecAbort == InitAbort /\ [][CompileStep]_vars

\* ================================================================ claims
Mutable(c) == colls[c].cls = "Processes"

Compiled(c) == colls[c].cls = "CompiledProcesses"

\* every binding c held before the step is held, unchanged, after it
BindingsKept(c) ==
    \A i \in DOMAIN colls[c].dct :
        /\ DictHas(colls'[c].dct, colls[c].dct[i].k)
        /\ DictGet(colls'[c].dct, colls[c].dct[i].k) = colls[c].dct[i].v

\* C1: append(p) on a mutable collection that already binds p's ID raises
\* the duplicate-ID error (ValueError) and leaves the collection's bindings
\* exactly as they were.
C1_AppendDuplicateRejected ==
    [][last'.op = "append" =>
          \A c \in DOMAIN colls, x \in PObj :
             (DoAppend(c, x) /\ Mutable(c) /\ DictHas(colls[c].dct, procs[x].ID))
                 => (last'.res = "ValueError" /\ colls'[c] = colls[c])]_vars

C1_Witness ==
    /\ last.op = "append"
    /\ last.res = "ValueError"
    /\ \E c \in DOMAIN colls : Mutable(c) /\ colls[c].dct # <<>>

\* C2: extend on a mutable collection, with a plain iterable or with
\* another collection, raises the duplicate-ID error whenever an element of
\* the argument has an ID the receiver already binds, and rebinds no ID.
C2_ExtendDuplicateRule ==
    [][\A c \in DOMAIN colls :
          /\ \A t \in Tuples :
                (DoExtendIterable(c, t) /\ Mutable(c)
                   /\ \E i \in DOMAIN t : DictHas(colls[c].dct, procs[t[i]].ID))
                   => (last'.res = "ValueError" /\ BindingsKept(c))
          /\ \A d \in DOMAIN colls :
                (DoExtendProcesses(c, d) /\ Mutable(c)
                   /\ \E i \in DOMAIN colls[d].dct : DictHas(colls[c].dct, colls[d].dct[i].k))
                   => (last'.res = "ValueError" /\ BindingsKept(c))]_vars

\* C3: an extend that raises the duplicate-ID error leaves every
\* collection with exactly the bindings it had before the call.
C3_ExtendAtomic ==
    [][(last'.op = "extend" /\ last'.res = "ValueError") => colls' = colls]_vars

\* C4: constructing a compiled collection from a tuple that was used for
\* a construction before returns the instance returned then, and does not
\* run _compile or create an object.
C4_Memoized ==
    [][last'.op = "construct" =>
          \A t \in NonEmptyTuples :
             (Construct(t) /\ \E e \in returned : e[1] = t)
                 => /\ \A e \in returned : e[1] = t => last'.ret = e[2]
                    /\ ~last'.ran
                    /\ colls' = colls]_vars

C4_Witness ==
    /\ last.op = "construct"
    /\ ~last.ran
    /\ \E e \in returned : e[2] = last.ret /\ Compiled(e[2])

IsReordering(t, u) ==
    /\ Len(t) = Len(u)
    /\ {t[i] : i \in DOMAIN t} = {u[i] : i \in DOMAIN u}
    /\ t # u

TupleIDs(t) == [i \in DOMAIN t |-> procs[t[i]].ID]

\* C5: two constructions from different orderings of the same two or more
\* processes return different instances, each with the process order of
\* its own tuple.
C5_OrderSensitive ==
    \A e1, e2 \in returned :
        (Len(e1[1]) >= 2 /\ IsReordering(e1[1], e2[1]))
            => /\ e1[2] # e2[2]
               /\ colls[e2[2]].extra.IDs = TupleIDs(e2[1])

\* a mutating call on compiled collection c: append, extend, attribute
\* assignment or item assignment
MutationOn(c) ==
    \/ \E x \in PObj \cup {NotAProcess} : DoAppend(c, x)
    \/ \E t \in Tuples : DoExtendIterable(c, t)
    \/ \E d \in DOMAIN colls : DoExtendProcesses(c, d)
    \/ DoSetAttr(c)
    \/ DoSetItem(c)

\* C6: on a compiled collection, constructed or promoted in place, every
\* append, extend, attribute assignment and item assignment raises the
\* read-only TypeError and changes neither the collection (members,
\* process order, matrices, parameters) nor any process.
C6_CompiledImmutable ==
    [][last'.op \in {"append", "extend", "setattr", "setitem"} =>
          \A c \in DOMAIN colls :
             (Compiled(c) /\ MutationOn(c))
                 => (last'.res = "TypeError" /\ colls'[c] = colls[c] /\ procs' = procs)]_vars

\* extend is only handed processes, so an extend that raised TypeError was
\* denied by a compiled collection
C6_Witness ==
    /\ last.op = "extend"
    /\ last.res = "TypeError"
    /\ \E c \in DOMAIN colls : Compiled(c) /\ colls[c].extra.has

\* the coefficient of base expression e in the sum over the first n member
\* processes p of matrix[p, j] * rate_vector[p]
RECURSIVE SumOverProcesses(_, _, _, _)
SumOverProcesses(X, j, e, n) ==
    IF n = 0 THEN R(0)
    ELSE RAdd(SumOverProcesses(X, j, e, n - 1),
              IF X.rate_equations[n].e = e
              THEN RMul(X.stoichiometry[n][j], X.rate_equations[n].k) ELSE R(0))

\* C7: in every compiled collection the production rate of every
\* component of its universe is the sum over the member processes of the
\* matrix entry times the process's rate.
C7_ProductionRates ==
    \A c \in DOMAIN colls :
        colls[c].extra.has =>
            LET X == colls[c].extra
            IN  /\ DOMAIN X.production_rates = DOMAIN X.components
                /\ \A j \in DOMAIN X.components :
                     \A e \in {X.rate_equations[p].e : p \in DOMAIN X.rate_equations} :
                        X.production_rates[j][e] = SumOverProcesses(X, j, e, X.size)

C7_Witness ==
    \E c \in DOMAIN colls :
        /\ colls[c].extra.has
        /\ colls[c].extra.size >= 2
        /\ \E j \in DOMAIN colls[c].extra.components :
             \E e \in DOMAIN colls[c].extra.production_rates[j] :
                colls[c].extra.production_rates[j][e] # R(0)

\* the coefficient of process p for component cmp, 0 when p does not
\* involve cmp
CoeffOf(p, cmp) ==
    IF IndexOf(procs[p].components, cmp) = 0 THEN R(0)
    ELSE procs[p].stoich[IndexOf(procs[p].components, cmp)]

\* C8: a compiled collection built from tuple t has one matrix row and one
\* rate entry per element of t, row i and rate i being those of t[i].
C8_RowsFollowTuple ==
    \A e \in returned :
        LET t == e[1]
            X == colls[e[2]].extra
        IN  /\ Len(X.stoichiometry) = Len(t)
            /\ Len(X.rate_equations) = Len(t)
            /\ \A i \in DOMAIN t :
                  /\ i \in DOMAIN X.rate_equations
                  /\ X.rate_equations[i] = procs[t[i]].rate
                  /\ \A j \in DOMAIN X.components :
                        X.stoichiometry[i][j] = CoeffOf(t[i], X.components[j])

\* C9: reverse() negates every coefficient and the rate expression, keeps
\* ID, reference component, conserved quantities and parameters, and a
\* second reverse() restores the process exactly.
C9_ReverseInvolution ==
    [][DoReverse(Subject) =>
          LET P == procs[Subject]
              Q == procs'[Subject]
          IN  /\ \A i \in DOMAIN P.stoich : Q.stoich[i] = RNeg(P.stoich[i])
              /\ Q.rate = [k |-> RNeg(P.rate.k), e |-> P.rate.e]
              /\ Q.ID = P.ID /\ Q.ref = P.ref /\ Q.components = P.components
              /\ Q.conserved_for = P.conserved_for /\ Q.params = P.params
              /\ Reverse(Q) = P]_vars

C9_Witness ==
    /\ last.op = "reverse"
    /\ \E i \in DOMAIN procs[Subject].stoich : procs[Subject].stoich[i] \notin {R(0), RNaN}
    /\ procs[Subject].rate.k # R(0)

\* C10: assigning the current reference component, whose coefficient is
\* +1 or -1, changes neither the coefficients nor the rate expression.
C10_SameReferenceNoOp ==
    [][\A c \in CmpIDs :
          (/\ DoSetRefComponent(Subject, c)
           /\ c = procs[Subject].ref
           /\ CoeffOf(Subject, c) \in {R(1), R(-1)})
              => (/\ procs'[Subject].stoich = procs[Subject].stoich
                  /\ procs'[Subject].rate = procs[Subject].rate)]_vars

\* C11: assigning a reference component whose coefficient before the call
\* is a (finite, not 0) divides every coefficient by |a| and multiplies the
\* rate expression by a.
C11_SetRefScales ==
    [][\A c \in CmpIDs :
          (/\ DoSetRefComponent(Subject, c)
           /\ CoeffOf(Subject, c)[1] # 0
           /\ CoeffOf(Subject, c)[2] # 0)
              => LET P == procs[Subject]
                     Q == procs'[Subject]
                     a == CoeffOf(Subject, c)
                 IN  /\ Q.stoich = [i \in DOMAIN P.stoich |-> RDiv(P.stoich[i], RAbs(a))]
                     /\ Q.rate = [k |-> RMul(P.rate.k, a), e |-> P.rate.e]]_vars

\* C12: assigning a reference component whose coefficient is 0 raises an
\* error, for an ndarray and for a list alike, and leaves the reference
\* component, the coefficients and the rate expression as they were.
C12_ZeroCoefficientRejected ==
    [][\A c \in CmpIDs :
          (DoSetRefComponent(Subject, c) /\ CoeffOf(Subject, c) = R(0))
              => (last'.res # "ok" /\ procs' = procs)]_vars

\* the coefficient of the reference component of P has magnitude 1
RefMagnitudeOne(P) ==
    /\ IndexOf(P.components, P.ref) # 0
    /\ RAbs(P.stoich[IndexOf(P.components, P.ref)]) = R(1)

\* C13: after an assignment of the reference component that returned
\* normally the reference's coefficient has magnitude 1, and every
\* reverse() that follows keeps it so.
C13_ReferenceMagnitudeOne ==
    [][/\ \A c \in CmpIDs \cup {"Z"} :
             (DoSetRefComponent(Subject, c) /\ last'.res = "ok")
                 => RefMagnitudeOne(procs'[Subject])
       /\ (DoReverse(Subject) /\ RefMagnitudeOne(procs[Subject]))
             => RefMagnitudeOne(procs'[Subject])]_vars

\* C14: check_conservation returns normally on an ndarray whose residual
\* is 0 for every conserved material, raises the conservation error naming
\* exactly the unconserved materials with their residuals otherwise, raises
\* on a list, and never changes the process.
C14_CheckConservation ==
    [][DoCheckConservation(Subject) =>
          LET P == procs[Subject]
              U == Unconserved(P, ConversionMatrix(P, P.conserved_for))
              r == CheckConservation(P)
          IN  /\ procs' = procs
              /\ (P.isarray /\ U = <<>>) => last'.res = "ok"
              /\ (P.isarray /\ U # <<>>) => (last'.res = "RuntimeError" /\ r.unconserved = U)
              /\ ~P.isarray => last'.res = "RuntimeError"]_vars

\* the processes c binds to the names IDs, as a __dict__ built in that order
Named(c, IDs) ==
    SetFields(<<>>, [i \in DOMAIN IDs |-> DictGet(colls[c].dct, IDs[i])], procs)

AllBound(c, IDs) == \A i \in DOMAIN IDs : DictHas(colls[c].dct, IDs[i])

\* C15: subgroup(IDs) on a compiled collection returns a new compiled
\* collection whose members are the named processes in the order given,
\* with the matrices of those processes, and leaves the parent unchanged.
C15_CompiledSubgroup ==
    [][\A c \in DOMAIN colls, IDs \in KeyLists :
          (DoSubgroup(c, IDs) /\ Compiled(c) /\ colls[c].extra.has /\ AllBound(c, IDs))
              => /\ colls'[c] = colls[c]
                 /\ last'.res = "ok"
                 /\ last'.ret \in DOMAIN colls' \ {c}
                 /\ colls'[last'.ret].cls = "CompiledProcesses"
                 /\ colls'[last'.ret].dct = Named(c, IDs)
                 /\ colls'[last'.ret].extra = CompileExtra(Named(c, IDs), procs)]_vars

\* C16: subgroup(IDs) on a mutable collection returns a new collection
\* holding exactly the named processes, raises the undefined-process error
\* when a name is not bound, and leaves the original unchanged.
C16_MutableSubgroup ==
    [][\A c \in DOMAIN colls, IDs \in KeyLists :
          (DoSubgroup(c, IDs) /\ Mutable(c))
              => /\ colls'[c] = colls[c]
                 /\ ~AllBound(c, IDs) => last'.res = "UndefinedProcess"
                 /\ AllBound(c, IDs) =>
                       /\ last'.res = "ok"
                       /\ last'.ret \in DOMAIN colls' \ {c}
                       /\ colls'[last'.ret].cls = "Processes"
                       /\ colls'[last'.ret].dct = Named(c, IDs)]_vars

\* C17: when a compilation raises, by construction or by mycompile, the
\* cache gets no entry and no object of class CompiledProcesses is left
\* without the full set of derived entries.
C17_AllOrNothing ==
    [][(last'.op \in {"construct", "mycompile"} /\ last'.res # "ok")
          => /\ cache' = cache
             /\ \A c \in DOMAIN colls' :
                   colls'[c].cls = "CompiledProcesses" => colls'[c].extra.has]_vars

\* C18: under every interleaving of the statements of __new__ run by
\* threads that construct from the same tuple, the cache entry of a tuple
\* is never written a second time and the threads hold one instance.
C18_ConcurrentConstructOnce ==
    [][/\ \A t \in DOMAIN cache : cache'[t] = cache[t]
       /\ \A i, j \in Threads :
             (thr'[i].t = thr'[j].t /\ thr'[i].self # 0 /\ thr'[j].self # 0)
                 => thr'[i].self = thr'[j].self]_vars

\* C19: a Process that is a member of a compiled collection keeps its
\* coefficients, rate expression and parameters, so the collection's row
\* and rate entry for it agree with the Process.
C19_FrozenMembers ==
    [][\A c \in DOMAIN colls :
          colls[c].extra.has =>
             \A i \in DOMAIN colls[c].extra.tuple :
                LET p == colls[c].extra.tuple[i]
                    X == colls[c].extra
                IN  /\ procs'[p].stoich = procs[p].stoich
                    /\ procs'[p].rate = procs[p].rate
                    /\ procs'[p].params = procs[p].params
                    /\ X.rate_equations[i] = procs'[p].rate
                    /\ X.stoichiometry[i] = DenseRow(procs'[p], X.components)]_vars

\* some name of IDs is not the ID of a member process of c
SomeUndefined(c, IDs) == \E i \in DOMAIN IDs : ~DictHas(colls[c].dct, IDs[i])

\* C20: item lookup by a name, or by a list with a name, that is not the
\* ID of a member process raises UndefinedProcess, on mutable and compiled
\* collections, and so do index and indices on compiled collections.
C20_UndefinedLookupsRaise ==
    [][\A c \in DOMAIN colls :
          /\ \A key \in LookupKeys :
                (DoGetItem(c, key) /\ ~DictHas(colls[c].dct, key))
                    => last'.res = "UndefinedProcess"
          /\ \A keys \in KeyLists :
                (DoGetItemList(c, keys) /\ SomeUndefined(c, keys))
                    => last'.res = "UndefinedProcess"
          /\ \A ID \in LookupKeys :
                (DoIndex(c, ID) /\ Compiled(c) /\ ~DictHas(colls[c].dct, ID))
                    => last'.res = "UndefinedProcess"
          /\ \A IDs \in KeyLists :
                (DoIndices(c, IDs) /\ Compiled(c) /\ SomeUndefined(c, IDs))
                    => last'.res = "UndefinedProcess"]_vars

\* C23: every compiled collection is the cache's entry for the tuple of its
\* own member processes, whether it was constructed or promoted in place.
C23_CompiledIsCacheEntry ==
    \A c \in DOMAIN colls :
        (Compiled(c) /\ colls[c].extra.has)
            => /\ colls[c].extra.tuple \in DOMAIN cache
               /\ cache[colls[c].extra.tuple] = c

\* the Process objects bound in collection c, in order
MemberValues(c) == [i \in DOMAIN colls[c].dct |-> ProcessValue(colls[c].dct[i].v)]

\* the IDs of the Process objects bound in collection c
MemberIDs(c) == {procs[colls[c].dct[i].v].ID : i \in DOMAIN colls[c].dct}

\* C24: len(c) is the number of member processes, iterating c yields exactly
\* the member Process objects, a str is in c only when it is the ID of a
\* member, and a successful compile changes none of the three.
C24_ViewsShowMembers ==
    [][/\ \A c \in DOMAIN colls :
            (last'.op = "len" /\ DoLen(c)) => last'.ret = Len(colls[c].dct)
       /\ \A c \in DOMAIN colls :
            (last'.op = "iter" /\ DoIter(c)) => last'.ret = MemberValues(c)
       /\ \A c \in DOMAIN colls, key \in LookupKeys :
            (last'.op = "contains" /\ DoContains(c, key) /\ last'.ret)
                => key \in MemberIDs(c)
       /\ \A c \in DOMAIN colls :
            (last'.op = "mycompile" /\ DoMyCompile(c) /\ last'.res = "ok")
                => /\ ProcessesLen(colls'[c]) = ProcessesLen(colls[c])
                   /\ ProcessesIter(colls'[c]) = ProcessesIter(colls[c])
                   /\ \A key \in LookupKeys :
                         ContainsStr(colls'[c], key) = ContainsStr(colls[c], key)]_vars

\* the component cells, as written in the file, of the row a call was made for
FileRow(call) == load.data[call.row]

\* the first component column of a file row whose cell is +1 or -1
UnitColumns(cells) ==
    {j \in DOMAIN cells : cells[j].kind = "num" /\ cells[j].n \in {-1, 1}}

\* the columns of a file row whose cell is not blank
NonBlankColumns(cells) == {j \in DOMAIN cells : cells[j].kind # "blank"}

\* the columns of a file row whose cell is neither blank nor the number 0
NonZeroColumns(cells) ==
    {j \in DOMAIN cells : cells[j].kind # "blank" /\ cells[j] # Num(0)}

FirstColumn(positions) ==
    LoadColumns[CHOOSE j \in positions : \A i \in positions : j <= i]

NonEmptyRows ==
    SelectSeq([i \in DOMAIN load.data |-> i],
              LAMBDA i : NonZeroColumns(load.data[i]) # {})

\* C22: every created process has the ID of its row's first column, the
\* coefficients of the component columns only and the rate text of the last
\* column; a load from a .csv or Excel file with parameters given returns a
\* collection with one process per non-empty row under that row's ID.
C22_RowsBecomeProcesses ==
    /\ \A k \in DOMAIN load.calls :
          LET call == load.calls[k]
          IN  /\ call.ID = RowID(call.row)
              /\ \A e \in DOMAIN call.reaction :
                    \E j \in DOMAIN LoadColumns :
                       /\ call.reaction[e].k = LoadColumns[j]
                       /\ call.reaction[e].v = FileRow(call)[j]
              /\ call.rate_equation = RowRate(call.row)
    /\ (load.called /\ load.path # ".txt" /\ load.parameters)
          => /\ load.res = "ok"
             /\ [k \in DOMAIN load.dct |-> load.dct[k].k]
                    = [k \in DOMAIN NonEmptyRows |-> RowID(NonEmptyRows[k])]

====
